---- MODULE Spec2Model ----
(***************************************************************************)
(* sys-locale: the locale providers (unix.rs, apple.rs, windows.rs) and    *)
(* the POSIX -> BCP 47 conversion.                                         *)
(*                                                                         *)
(* A Rust String / &str is a sequence of one-character strings, a Vec<u8>  *)
(* or Vec<u16> a sequence of integers, an Option<T> a sequence of length   *)
(* at most one (None == <<>>, Some(x) == <<x>>).                           *)
(***************************************************************************)
EXTENDS Integers, Sequences, FiniteSets, TLC

(* ------------------------------ bounds -------------------------------- *)

\* Total number of characters held by the four environment variables.
MaxTotal == 4
\* Length of a string handed directly to posix_to_bcp47.
MaxNormLen == 4
\* Number of entries CFLocaleCopyPreferredLanguages may report.
MaxCount == 2
\* Largest capacity / length CFStringGetBytes and CFStringGetLength report.
MaxCap == 3
\* Largest buffer length GetUserPreferredUILanguages asks for.
MaxBuf == 4
\* Largest language count GetUserPreferredUILanguages reports.
MaxLangs == 1

(* ------------------------------ values -------------------------------- *)

None == <<>>
Some(x) == <<x>>
Opt(S) == {None} \cup {Some(x) : x \in S}
Strs(C, n) == UNION {[1..k -> C] : k \in 0..n}
OLen(o) == IF o = None THEN 0 ELSE Len(o[1])

\* Characters of the environment values: letters in two cases, the
\* characters the conversion treats specially, and the LANGUAGE delimiter.
EnvChars == {"a", "A", "_", ".", ":"}
\* Characters of the inputs given directly to the conversion.
NormChars == {"a", "A", "_", "-", ".", "@"}
\* UTF-8 bytes: 'a', and the two bytes of U+00E9.
ByteSample == {97, 195, 169}
\* UTF-16 units: NUL, 'a', a high surrogate, a low surrogate.
U16Sample == {0, 97, 55357, 56832}

LANGUAGE == "LANGUAGE"
LC_ALL == "LC_ALL"
LC_MESSAGES == "LC_MESSAGES"
LANG == "LANG"
VarNames == {LANGUAGE, LC_ALL, LC_MESSAGES, LANG}
\* for variable in [LC_ALL, LC_MESSAGES, LANG]
Variables == <<LC_ALL, LC_MESSAGES, LANG>>

VARIABLES
    platform,        \* the provider selected at build time
    pc,              \* position inside the provider's get
    env,             \* unix: EnvAccess, variable name -> Option<String>
    locales,         \* unix: let mut locales = Vec::new()
    i,               \* unix: index of the for loop over Variables
    input,           \* conversion called directly: its argument
    first,           \* posix_to_bcp47(input)
    second,          \* posix_to_bcp47(first)
    preferred_langs, \* apple: None (null) or Some(CFArrayGetCount)
    str_len,         \* apple: CFStringGetLength(locale)
    capacity,        \* apple: usedBufLen of the sizing call
    out_len,         \* apple: usedBufLen of the filling call
    ret,             \* apple: Option<String> returned
    buffer,          \* apple: Vec<u8>; windows: Vec<u16>
    num_languages,   \* windows
    buffer_length,   \* windows
    success,         \* windows
    result           \* windows: Vec<String>

unixVars == <<env, locales, i>>
normVars == <<input, first, second>>
appleVars == <<preferred_langs, str_len, capacity, out_len, ret>>
winVars == <<num_languages, buffer_length, success, result>>
vars == <<platform, pc, unixVars, normVars, appleVars, winVars, buffer>>

(* --------------------------- posix_to_bcp47 --------------------------- *)

\* Mutant: the text is cut at the last '.' or '@' instead of the first.
RECURSIVE take_until_last(_)
take_until_last(s) ==
    IF \A k \in 1..Len(s) : s[k] \notin {".", "@"} THEN s
    ELSE LET p == CHOOSE k \in 1..Len(s) :
                     /\ s[k] \in {".", "@"}
                     /\ \A j \in (k + 1)..Len(s) : s[j] \notin {".", "@"}
         IN  SubSeq(s, 1, p - 1)

\* .take_while(|&c| c != '.' && c != '@')
RECURSIVE take_while(_)
take_while(s) ==
    IF s = <<>> \/ Head(s) = "." \/ Head(s) = "@" THEN <<>>
    ELSE <<Head(s)>> \o take_while(Tail(s))

\* Mutant: only the encoding separator '.' ends the scan.
RECURSIVE take_while_dot(_)
take_while_dot(s) ==
    IF s = <<>> \/ Head(s) = "." THEN <<>>
    ELSE <<Head(s)>> \o take_while_dot(Tail(s))

posix_dot_only(locale) ==
    LET t == take_while_dot(locale)
    IN  [k \in 1..Len(t) |-> IF t[k] = "_" THEN "-" ELSE t[k]]

\* locale.chars().take_while(..).map(|c| if c == '_' { '-' } else { c }).collect()
posix_to_bcp47(locale) ==
    LET t == take_while(locale)
    IN  [k \in 1..Len(t) |-> IF t[k] = "_" THEN "-" ELSE t[k]]

(* ------------------------------ unix.rs ------------------------------- *)

\* str::split / slice::split: the pieces between the delimiters, empty
\* pieces included; n delimiters give n + 1 pieces.
RECURSIVE split(_, _)
split(s, d) ==
    IF \A k \in 1..Len(s) : s[k] # d THEN <<s>>
    ELSE LET p == CHOOSE k \in 1..Len(s) :
                     s[k] = d /\ \A j \in 1..(k - 1) : s[j] # d
         IN  <<SubSeq(s, 1, p - 1)>> \o split(SubSeq(s, p + 1, Len(s)), d)

to_ascii_lowercase(s) == [k \in 1..Len(s) |-> IF s[k] = "A" THEN "a" ELSE s[k]]

\* Mutant: the comparison ignores ASCII case.
contains_ignore_case(v, x) ==
    \E k \in 1..Len(v) : to_ascii_lowercase(v[k]) = to_ascii_lowercase(x)

\* locales.contains(&locale)
contains(v, x) == \E k \in 1..Len(v) : v[k] = x

\* Mutant: the tag is pushed without looking for it first.
push_always(v, locale) == Append(v, locale)

\* Mutant: a new tag goes to the front of the list.
push_front_unique(v, locale) ==
    IF ~contains(v, locale) THEN <<locale>> \o v ELSE v

\* if !locales.contains(&locale) { locales.push(locale); }
push_unique(v, locale) ==
    IF ~contains(v, locale) THEN Append(v, locale) ELSE v

\* Mutant: the empty value is let through.
filter_none(o) == o

\* .filter(|val| !val.is_empty())
filter_non_empty(o) == IF o # None /\ o[1] # <<>> THEN o ELSE None

\* for part in val.split(':') { ... }
RECURSIVE push_parts(_, _)
push_parts(v, parts) ==
    IF parts = <<>> THEN v
    ELSE push_parts(push_unique(v, posix_to_bcp47(Head(parts))), Tail(parts))

\* The LANGUAGE block of _get.
language_step(e, v) ==
    LET val == filter_non_empty(e[LANGUAGE])
    IN  IF val # None THEN push_parts(v, split(val[1], ":")) ELSE v

\* One iteration of the loop over LC_ALL, LC_MESSAGES, LANG.
variable_step(e, v, variable) ==
    LET val == filter_non_empty(e[variable])
    IN  IF val # None THEN push_unique(v, posix_to_bcp47(val[1])) ELSE v

\* _get as a function of the environment.
_get(e) ==
    variable_step(e,
        variable_step(e,
            variable_step(e, language_step(e, <<>>), LC_ALL),
            LC_MESSAGES),
        LANG)

IdleUnix ==
    /\ env = [v \in VarNames |-> None]
    /\ locales = <<>>
    /\ i = 1

IdleNorm ==
    /\ input = <<>>
    /\ first = <<>>
    /\ second = <<>>

IdleApple ==
    /\ preferred_langs = None
    /\ str_len = 0
    /\ capacity = 0
    /\ out_len = 0
    /\ ret = None

IdleWin ==
    /\ num_languages = 0
    /\ buffer_length = 0
    /\ success = FALSE
    /\ result = <<>>

\* Any environment (MockEnv) whose values hold at most MaxTotal characters.
InitUnix ==
    /\ platform = "unix"
    /\ pc = "start"
    /\ \E l \in Opt(Strs(EnvChars, MaxTotal)) :
       \E a \in Opt(Strs(EnvChars, MaxTotal - OLen(l))) :
       \E m \in Opt(Strs(EnvChars, MaxTotal - OLen(l) - OLen(a))) :
       \E g \in Opt(Strs(EnvChars, MaxTotal - OLen(l) - OLen(a) - OLen(m))) :
          env = [v \in VarNames |->
                   CASE v = LANGUAGE -> l
                     [] v = LC_ALL -> a
                     [] v = LC_MESSAGES -> m
                     [] OTHER -> g]
    /\ locales = <<>>
    /\ i = 1
    /\ IdleNorm /\ IdleApple /\ IdleWin
    /\ buffer = <<>>

GetLanguage ==
    /\ platform = "unix"
    /\ pc = "start"
    /\ locales' = language_step(env, locales)
    /\ pc' = "loop"
    /\ UNCHANGED <<platform, env, i, normVars, appleVars, winVars, buffer>>

GetVariable ==
    /\ platform = "unix"
    /\ pc = "loop"
    /\ i <= Len(Variables)
    /\ locales' = variable_step(env, locales, Variables[i])
    /\ i' = i + 1
    /\ UNCHANGED <<platform, pc, env, normVars, appleVars, winVars, buffer>>

\* locales.into_iter()
ReturnLocales ==
    /\ platform = "unix"
    /\ pc = "loop"
    /\ i > Len(Variables)
    /\ pc' = "done"
    /\ UNCHANGED <<platform, unixVars, normVars, appleVars, winVars, buffer>>

NextUnix == GetLanguage \/ GetVariable \/ ReturnLocales

Init == InitUnix
Next == NextUnix
Spec == Init /\ [][Next]_vars

(* ------------------- posix_to_bcp47 called directly ------------------- *)

InitNorm ==
    /\ platform = "norm"
    /\ pc = "start"
    /\ input \in Strs(NormChars, MaxNormLen)
    /\ first = <<>>
    /\ second = <<>>
    /\ IdleUnix /\ IdleApple /\ IdleWin
    /\ buffer = <<>>

Normalize ==
    /\ platform = "norm"
    /\ pc = "start"
    /\ first' = posix_to_bcp47(input)
    /\ pc' = "once"
    /\ UNCHANGED <<platform, input, second, unixVars, appleVars, winVars, buffer>>

NormalizeAgain ==
    /\ platform = "norm"
    /\ pc = "once"
    /\ second' = posix_to_bcp47(first)
    /\ pc' = "twice"
    /\ UNCHANGED <<platform, input, first, unixVars, appleVars, winVars, buffer>>

NextNorm == Normalize \/ NormalizeAgain
SpecNorm == InitNorm /\ [][NextNorm]_vars

(* ------------------------------ apple.rs ------------------------------ *)

\* String::from_utf8: the bytes are kept when they are well-formed UTF-8
\* (over ByteSample: 'a', or 0xC3 followed by 0xA9), refused otherwise.
RECURSIVE is_utf8(_)
is_utf8(b) ==
    IF b = <<>> THEN TRUE
    ELSE IF b[1] < 128 THEN is_utf8(Tail(b))
    ELSE IF b[1] \in 194..223
         THEN Len(b) >= 2 /\ b[2] \in 128..191 /\ is_utf8(SubSeq(b, 3, Len(b)))
    ELSE FALSE

from_utf8_ok(b) == IF is_utf8(b) THEN Some(b) ELSE None

\* Mutant: the two calls must report the same length.
sanity_check_eq(o, c) == o = c

\* assert!(out_len <= capacity)
sanity_check(o, c) == o <= c

InitApple ==
    /\ platform = "apple"
    /\ pc = "start"
    /\ IdleApple /\ IdleUnix /\ IdleNorm /\ IdleWin
    /\ buffer = <<>>

\* CFLocaleCopyPreferredLanguages and the checks of its result: a null
\* array or an empty one returns None.
CopyPreferredLanguages ==
    /\ platform = "apple"
    /\ pc = "start"
    /\ \E langs \in Opt(0..MaxCount) :
          /\ preferred_langs' = langs
          /\ pc' = IF langs # None /\ langs[1] # 0 THEN "have_langs" ELSE "done"
    /\ ret' = None
    /\ UNCHANGED <<platform, str_len, capacity, out_len, buffer,
                   unixVars, normVars, winVars>>

\* CFStringGetLength, the sizing CFStringGetBytes call (which reports a
\* number of bytes, so no negative value) and the zero-capacity guard.
SizeQuery ==
    /\ platform = "apple"
    /\ pc = "have_langs"
    /\ \E n \in 0..MaxCap, c \in 0..MaxCap :
          /\ str_len' = n
          /\ capacity' = c
          /\ pc' = IF c = 0 THEN "done" ELSE "sized"
    /\ UNCHANGED <<platform, preferred_langs, out_len, ret, buffer,
                   unixVars, normVars, winVars>>

\* Vec::with_capacity and the filling CFStringGetBytes call, reporting a
\* length the assertion accepts: the bytes are validated and returned.
FillBuffer ==
    /\ platform = "apple"
    /\ pc = "sized"
    /\ \E o \in 0..(MaxCap + 1) :
          /\ sanity_check(o, capacity)
          /\ out_len' = o
          /\ \E bytes \in [1..o -> ByteSample] :
                /\ buffer' = bytes
                /\ ret' = from_utf8_ok(bytes)
    /\ pc' = "done"
    /\ UNCHANGED <<platform, preferred_langs, str_len, capacity,
                   unixVars, normVars, winVars>>

\* The filling call reporting a length the assertion refuses: panic.
FillAssertFails ==
    /\ platform = "apple"
    /\ pc = "sized"
    /\ \E o \in 0..(MaxCap + 1) :
          /\ ~sanity_check(o, capacity)
          /\ out_len' = o
    /\ pc' = "panic"
    /\ UNCHANGED <<platform, preferred_langs, str_len, capacity, ret, buffer,
                   unixVars, normVars, winVars>>

NextApple ==
    \/ CopyPreferredLanguages
    \/ SizeQuery
    \/ FillBuffer
    \/ FillAssertFails

(* ----------------------------- windows.rs ----------------------------- *)

\* String::from_utf16: the code points of the units, or an error (None)
\* when a surrogate is not half of a high-low pair.
RECURSIVE from_utf16(_)
from_utf16(u) ==
    IF u = <<>> THEN Some(<<>>)
    ELSE IF u[1] \in 55296..56319
         THEN IF Len(u) >= 2 /\ u[2] \in 56320..57343
              THEN LET rest == from_utf16(SubSeq(u, 3, Len(u)))
                   IN  IF rest = None THEN None
                       ELSE Some(<<65536 + (u[1] - 55296) * 1024 + (u[2] - 56320)>>
                                 \o rest[1])
              ELSE None
    ELSE IF u[1] \in 56320..57343 THEN None
    ELSE LET rest == from_utf16(Tail(u))
         IN  IF rest = None THEN None ELSE Some(<<u[1]>> \o rest[1])

\* Mutant: the empty names are pushed too.
RECURSIVE collect_keep_empty(_, _)
collect_keep_empty(v, parts) ==
    IF parts = <<>> THEN v
    ELSE LET locale == from_utf16(Head(parts))
         IN  collect_keep_empty(
                 IF locale # None THEN Append(v, locale[1]) ELSE v,
                 Tail(parts))

\* for part in buffer.split(|i| i == &0) { if let Ok(locale) = ... }
RECURSIVE collect(_, _)
collect(v, parts) ==
    IF parts = <<>> THEN v
    ELSE LET locale == from_utf16(Head(parts))
         IN  collect(
                 IF locale # None /\ locale[1] # <<>> THEN Append(v, locale[1]) ELSE v,
                 Tail(parts))

InitWin ==
    /\ platform = "windows"
    /\ pc = "start"
    /\ IdleWin /\ IdleUnix /\ IdleNorm /\ IdleApple
    /\ buffer = <<>>

\* The call with a null buffer reports the language count and the buffer
\* length (both stay 0 when it fails); the buffer is resized with zeros.
WinSizeQuery ==
    /\ platform = "windows"
    /\ pc = "start"
    /\ num_languages' \in 0..MaxLangs
    /\ buffer_length' \in 0..MaxBuf
    /\ buffer' = [k \in 1..buffer_length' |-> 0]
    /\ pc' = "sized"
    /\ UNCHANGED <<platform, success, result, unixVars, normVars, appleVars>>

\* The call with the buffer: it succeeds or fails, writes inside the buffer
\* and reports a count and a length again.
WinFillQuery ==
    /\ platform = "windows"
    /\ pc = "sized"
    /\ success' \in BOOLEAN
    /\ num_languages' \in 0..MaxLangs
    /\ buffer_length' \in 0..MaxBuf
    /\ buffer' \in [1..Len(buffer) -> U16Sample]
    /\ pc' = "filled"
    /\ UNCHANGED <<platform, result, unixVars, normVars, appleVars>>

\* if success { for part in ... } result.into_iter()
WinCollect ==
    /\ platform = "windows"
    /\ pc = "filled"
    /\ result' = IF success THEN collect(result, split(buffer, 0)) ELSE result
    /\ pc' = "done"
    /\ UNCHANGED <<platform, num_languages, buffer_length, success, buffer,
                   unixVars, normVars, appleVars>>

NextWin == WinSizeQuery \/ WinFillQuery \/ WinCollect
SpecWin == InitWin /\ [][NextWin]_vars

(* ------------------- the three providers side by side ----------------- *)

InitProviders == InitUnix \/ InitApple \/ InitWin
NextProviders == NextUnix \/ NextApple \/ NextWin
SpecProviders == InitProviders /\ [][NextProviders]_vars

(* ------------------------- properties: _get --------------------------- *)

IsPrefix(s, t) == Len(s) <= Len(t) /\ SubSeq(t, 1, Len(s)) = s
Done == platform = "unix" /\ pc = "done"

\* The raw values in precedence order: the parts of LANGUAGE between its
\* ':' delimiters, then the values of LC_ALL, LC_MESSAGES and LANG.
RawValues(e) ==
    (IF e[LANGUAGE] = None THEN <<>> ELSE split(e[LANGUAGE][1], ":"))
        \o e[LC_ALL] \o e[LC_MESSAGES] \o e[LANG]

NonEmptyRaw(e) == SelectSeq(RawValues(e), LAMBDA r : r # <<>>)

\* The values of s in the order of their first occurrence.
RECURSIVE FirstSeenFrom(_, _)
FirstSeenFrom(s, k) ==
    IF k > Len(s) THEN <<>>
    ELSE (IF \A j \in 1..(k - 1) : s[j] # s[k] THEN <<s[k]>> ELSE <<>>)
            \o FirstSeenFrom(s, k + 1)

Normalized(raws) == [k \in 1..Len(raws) |-> posix_to_bcp47(raws[k])]

\* The values the code converts: every part of a non-empty LANGUAGE, and
\* every non-empty value of the other three variables.
Sighted(e) ==
    (IF e[LANGUAGE] \in {None, Some(<<>>)} THEN <<>>
     ELSE split(e[LANGUAGE][1], ":"))
        \o SelectSeq(e[LC_ALL] \o e[LC_MESSAGES] \o e[LANG], LAMBDA r : r # <<>>)

\* Number of colon-separated parts of LANGUAGE, counted from its colons.
NumParts(e) ==
    IF e[LANGUAGE] \in {None, Some(<<>>)} THEN 0
    ELSE 1 + Cardinality({k \in 1..Len(e[LANGUAGE][1]) : e[LANGUAGE][1][k] = ":"})

\* e with the variables Variables[k], ..., Variables[3] made absent.
DropFrom(e, k) ==
    [v \in VarNames |->
        IF \E j \in k..Len(Variables) : Variables[j] = v THEN None ELSE e[v]]

\* C1: the list built by _get never holds the same string at two positions.
C1_NoDuplicates ==
    platform = "unix" =>
        \A j, k \in 1..Len(locales) : j # k => locales[j] # locales[k]

\* C1 witness: _get has returned two or more tags after sighting more
\* values than it kept, so a duplicate was dropped.
C1_Witness ==
    /\ Done
    /\ Len(locales) >= 2
    /\ Len(Sighted(env)) > Len(locales)

\* C2: the result of _get is the first-seen deduplication of the normalized
\* non-empty raw values (parts of LANGUAGE, then LC_ALL, LC_MESSAGES, LANG).
C2_FirstSeenOfNonEmpty ==
    Done => locales = FirstSeenFrom(Normalized(NonEmptyRaw(env)), 1)

\* C3: the empty raw sub-values (the empty parts of LANGUAGE included) are
\* skipped, so no tag of the list built by _get is the empty string. Stated
\* over the environments whose non-empty raw values all convert to a
\* non-empty tag: there an empty entry can only come from an empty value.
C3_NoEmptyTag ==
    (/\ platform = "unix"
     /\ \A n \in 1..Len(NonEmptyRaw(env)) :
            posix_to_bcp47(NonEmptyRaw(env)[n]) # <<>>)
        => \A k \in 1..Len(locales) : locales[k] # <<>>

\* C4: a variable set to "" gives the result it gives when absent, and the
\* result is empty when every variable is absent or empty.
C4_EmptyIsAbsent ==
    Done =>
        /\ \A v \in VarNames :
              /\ env[v] = Some(<<>>) => locales = _get([env EXCEPT ![v] = None])
              /\ env[v] = None => locales = _get([env EXCEPT ![v] = Some(<<>>)])
        /\ (\A v \in VarNames : env[v] \in {None, Some(<<>>)}) => locales = <<>>

\* C4 witness: _get has returned a tag with LANGUAGE set to "" and another
\* variable absent.
C4_Witness ==
    /\ Done
    /\ env[LANGUAGE] = Some(<<>>)
    /\ env[LC_MESSAGES] = None
    /\ Len(locales) >= 1

\* C7: the conversion keeps every character's case, and two sighted values
\* whose tags differ only in letter case both appear in the result.
C7_CaseSensitive ==
    Done =>
        LET tags == Normalized(Sighted(env))
            raws == Sighted(env)
        IN  /\ \A n \in 1..Len(raws) : \A k \in 1..Len(tags[n]) :
                  \/ tags[n][k] = raws[n][k]
                  \/ raws[n][k] = "_" /\ tags[n][k] = "-"
            /\ \A m, n \in 1..Len(tags) :
                  (/\ tags[m] # tags[n]
                   /\ to_ascii_lowercase(tags[m]) = to_ascii_lowercase(tags[n]))
                  => \E j, k \in 1..Len(locales) :
                        j # k /\ locales[j] = tags[m] /\ locales[k] = tags[n]

\* C7 witness: _get has returned two tags that differ only in letter case.
C7_Witness ==
    /\ Done
    /\ \E j, k \in 1..Len(locales) :
          /\ locales[j] # locales[k]
          /\ to_ascii_lowercase(locales[j]) = to_ascii_lowercase(locales[k])

\* C10: making a single-valued variable and every variable below it absent
\* leaves a prefix of the result; one variable adds at most one tag; the
\* result is no longer than the number of LANGUAGE parts plus three.
C10_LowerOnlyAppends ==
    Done =>
        /\ \A k \in 1..Len(Variables) : IsPrefix(_get(DropFrom(env, k)), locales)
        /\ \A k \in 1..Len(Variables) :
              Len(locales) <= Len(_get([env EXCEPT ![Variables[k]] = None])) + 1
        /\ Len(locales) <= NumParts(env) + 3

\* C10 witness: LANG contributed the last of three or more tags.
C10_Witness ==
    /\ Done
    /\ Len(locales) >= 3
    /\ env[LANG] # None
    /\ Len(_get(DropFrom(env, 3))) < Len(locales)

(* --------------------- properties: posix_to_bcp47 --------------------- *)

\* Position of the first '.' or '@' of s, Len(s) + 1 when there is none.
FirstStop(s) ==
    IF \E k \in 1..Len(s) : s[k] \in {".", "@"}
    THEN CHOOSE k \in 1..Len(s) :
            s[k] \in {".", "@"} /\ \A j \in 1..(k - 1) : s[j] \notin {".", "@"}
    ELSE Len(s) + 1

\* C5: the conversion returns the prefix before the first '.' or '@' with
\* each '_' replaced by '-'; the result holds no '.', '@' or '_'.
C5_PrefixWithHyphens ==
    (platform = "norm" /\ pc # "start") =>
        /\ Len(first) = FirstStop(input) - 1
        /\ \A k \in 1..Len(first) :
              first[k] = (IF input[k] = "_" THEN "-" ELSE input[k])
        /\ \A k \in 1..Len(first) : first[k] \notin {".", "@", "_"}
        /\ (input = <<>> => first = <<>>)

\* C5 witness: an input with '_' converted and text after a '.' or '@' cut.
C5_Witness ==
    /\ platform = "norm" /\ pc = "once"
    /\ \E k \in 1..Len(first) : input[k] = "_" /\ first[k] = "-"
    /\ Len(first) + 2 <= Len(input)

\* C6: converting twice gives what converting once gives, and an input
\* without '_', '.' and '@' is returned unchanged.
C6_Idempotent ==
    /\ (platform = "norm" /\ pc = "twice") => second = first
    /\ (platform = "norm" /\ pc # "start"
            /\ \A k \in 1..Len(input) : input[k] \notin {"_", ".", "@"})
        => first = input

\* C6 witness: the second conversion ran on a result that differs from the
\* input it came from.
C6_Witness ==
    /\ platform = "norm" /\ pc = "twice"
    /\ first # input
    /\ first # <<>>

(* ----------------------- properties: providers ------------------------ *)

\* The selected provider has a step to take. The steps of _get are total
\* functions of the state, so one can be taken where its guard holds.
CanStep ==
    CASE platform = "unix" ->
            pc = "start" \/ (pc = "loop" /\ i \in 1..(Len(Variables) + 1))
      [] platform = "apple" -> ENABLED NextApple
      [] platform = "windows" -> ENABLED NextWin
      [] OTHER -> FALSE

RECURSIVE encode_utf16(_)
encode_utf16(str) ==
    IF str = <<>> THEN <<>>
    ELSE (IF str[1] < 65536 THEN <<str[1]>>
          ELSE <<55296 + ((str[1] - 65536) \div 1024),
                 56320 + ((str[1] - 65536) % 1024)>>)
            \o encode_utf16(Tail(str))

WellFormedUtf16(u) ==
    \A k \in 1..Len(u) :
        /\ u[k] \in 55296..56319 => k < Len(u) /\ u[k + 1] \in 56320..57343
        /\ u[k] \in 56320..57343 => k > 1 /\ u[k - 1] \in 55296..56319

\* The NUL-separated segments of b as pairs of neighbouring boundaries
\* (positions of a NUL, 0 and Len(b) + 1).
Boundaries(b) == {0, Len(b) + 1} \cup {k \in 1..Len(b) : b[k] = 0}
SegmentsOf(b) ==
    {p \in Boundaries(b) \X Boundaries(b) :
        p[1] < p[2] /\ \A m \in Boundaries(b) : ~(p[1] < m /\ m < p[2])}
SegmentText(b, p) == SubSeq(b, p[1] + 1, p[2] - 1)
KeptSegments(b) ==
    {p \in SegmentsOf(b) :
        p[2] - p[1] > 1 /\ WellFormedUtf16(SegmentText(b, p))}
KthKept(b, k) ==
    CHOOSE p \in KeptSegments(b) :
        Cardinality({q \in KeptSegments(b) : q[1] < p[1]}) = k - 1

\* C9: a failed second call gives the empty sequence; a successful one gives
\* exactly the non-empty, valid UTF-16, NUL-separated segments of the
\* buffer, in buffer order.
C9_SegmentsInOrder ==
    (platform = "windows" /\ pc = "done") =>
        /\ ~success => result = <<>>
        /\ success =>
              /\ Len(result) = Cardinality(KeptSegments(buffer))
              /\ \A k \in 1..Len(result) :
                    encode_utf16(result[k]) = SegmentText(buffer, KthKept(buffer, k))

\* C9 witness: a successful call whose buffer held a name with a surrogate
\* pair, an invalid segment and more segments than names returned.
C9_Witness ==
    /\ platform = "windows" /\ pc = "done"
    /\ success
    /\ \E k \in 1..Len(result) : \E j \in 1..Len(result[k]) : result[k][j] >= 65536
    /\ \E p \in SegmentsOf(buffer) : ~WellFormedUtf16(SegmentText(buffer, p))
    /\ Cardinality(SegmentsOf(buffer)) > Len(result)

====
